---- MODULE Spec2Model ----
(***************************************************************************)
(* A model of the octasphere mesh generator (generateOctasphere and its    *)
(* helpers) and of the gltfio Draco decode wrapper (DracoMesh::decode).    *)
(*                                                                         *)
(* Kotlin Float values are modelled as fixed-point integers: the Float f   *)
(* is the integer nearest f * Scale.  The kotlin.math functions sin, cos   *)
(* and acos are computed on that representation to about 1/Scale.  Every   *)
(* statement about magnitudes is therefore made up to a tolerance that is  *)
(* far larger than the rounding of the model and of 32-bit floats.         *)
(***************************************************************************)
EXTENDS Integers, Sequences, FiniteSets, TLC

(***************************************************************************)
(* Bounds of the model.                                                    *)
(***************************************************************************)
\* subdivisions is drawn from -NegSubdivisions .. kOctasphereMaxSubdivisions + OverSubdivisions
NegSubdivisions == 1
OverSubdivisions == 1
\* number of terms after the first kept of the sine and cosine series
SeriesTerms == 9
\* DracoMesh::decode is called with dataSize in 0 .. MaxDataSize
MaxDataSize == 3
\* a decoded mesh carries attributes with unique ids in 0 .. MaxAttrId
MaxAttrId == 2
\* Builder.vertexCount is called with a count in 1 .. MaxVertexCount
MaxVertexCount == 2
\* SurfaceOrientation.destroy is called at most MaxDestroys times
MaxDestroys == 2

(***************************************************************************)
(* Program constants.                                                      *)
(***************************************************************************)
kFloatSize == 4
kOctasphereMaxSubdivisions == 5
kOctaspherePositionSize == 3 * kFloatSize
kOctasphereTangentSize == 4 * kFloatSize
kOctasphereIndexSize == 2
ShortMaxValue == 32767

(***************************************************************************)
(* Fixed-point Float arithmetic.                                           *)
(***************************************************************************)
K == 10 * 100
Scale == K * K
One == Scale
Half == Scale \div 2
FPI == 3141 * K + 593

\* The Float of an Int, and of a decimal n / K.
ToFloat(n) == n * Scale
Milli(n) == n * K

\* a * b of two Floats: floor(a * b / Scale), computed in halves of K so that no
\* intermediate product leaves the 32-bit range.
FMul(a, b) ==
    LET ah == a \div K
        al == a % K
        bh == b \div K
        bl == b % K
    IN  ah * bh + ((ah * bl + al * bh) + ((al * bl) \div K)) \div K

\* a / n of a Float by an Int converted to Float.
FDivInt(a, n) == a \div n

FMax(a, b) == IF a >= b THEN a ELSE b

RECURSIVE SinSeries(_, _)
SinSeries(x2, k) ==
    IF k > SeriesTerms THEN One
    ELSE One - FDivInt(FMul(x2, SinSeries(x2, k + 1)), (2 * k) * (2 * k + 1))

\* kotlin.math.sin: x (1 - x^2/(2*3) (1 - x^2/(4*5) (1 - ...)))
sin(x) == FMul(x, SinSeries(FMul(x, x), 1))

RECURSIVE CosSeries(_, _)
CosSeries(x2, k) ==
    IF k > SeriesTerms THEN One
    ELSE One - FDivInt(FMul(x2, CosSeries(x2, k + 1)), (2 * k - 1) * (2 * k))

\* kotlin.math.cos: 1 - x^2/(1*2) (1 - x^2/(3*4) (1 - ...))
cos(x) == CosSeries(FMul(x, x), 1)

RECURSIVE AcosBisect(_, _, _)
AcosBisect(c, lo, hi) ==
    IF hi - lo <= 1 THEN lo
    ELSE LET mid == (lo + hi) \div 2
         IN  IF cos(mid) >= c THEN AcosBisect(c, mid, hi) ELSE AcosBisect(c, lo, mid)

\* kotlin.math.acos on [-1, 1]: the angle in [0, FPI] whose cosine is c.
acos(c) == AcosBisect(c, 0, FPI)

(***************************************************************************)
(* Float3 and the quaternion helpers.                                      *)
(***************************************************************************)
Float3(x, y, z) == <<x, y, z>>
Float3Zero == Float3(0, 0, 0)

cross(a, b) ==
    Float3(FMul(a[2], b[3]) - FMul(a[3], b[2]),
           FMul(a[3], b[1]) - FMul(a[1], b[3]),
           FMul(a[1], b[2]) - FMul(a[2], b[1]))

dot(a, b) == FMul(a[1], b[1]) + FMul(a[2], b[2]) + FMul(a[3], b[3])

Float3Times(v, s) == Float3(FMul(v[1], s), FMul(v[2], s), FMul(v[3], s))

Float3Plus(a, b) == Float3(a[1] + b[1], a[2] + b[2], a[3] + b[3])

quaternionFromRotation(axis, radians) ==
    LET s == sin(FMul(Half, radians))
    IN  <<FMul(axis[1], s), FMul(axis[2], s), FMul(axis[3], s), cos(FMul(Half, radians))>>

\* a rotation that leaves out the last term
quaternionRotateVectorNoP(quaternion, src) ==
    LET xyz == Float3(quaternion[1], quaternion[2], quaternion[3])
        t == Float3Times(cross(xyz, src), ToFloat(2))
    IN  Float3Plus(Float3Times(t, quaternion[4]), src)

quaternionRotateVector(quaternion, src) ==
    LET xyz == Float3(quaternion[1], quaternion[2], quaternion[3])
        t == Float3Times(cross(xyz, src), ToFloat(2))
        p == cross(xyz, t)
    IN  Float3Plus(Float3Plus(Float3Times(t, quaternion[4]), src), p)

quaternionFromEulers(eulers) ==
    LET sR == sin(FMul(eulers[1], Half))
        cR == cos(FMul(eulers[1], Half))
        sP == sin(FMul(eulers[2], Half))
        cP == cos(FMul(eulers[2], Half))
        sY == sin(FMul(eulers[3], Half))
        cY == cos(FMul(eulers[3], Half))
    IN  <<FMul(FMul(sR, cP), cY) + FMul(FMul(cR, sP), sY),
          FMul(FMul(cR, sP), cY) - FMul(FMul(sR, cP), sY),
          FMul(FMul(cR, cP), sY) + FMul(FMul(sR, sP), cY),
          FMul(FMul(cR, cP), cY) - FMul(FMul(sR, sP), sY)>>

(***************************************************************************)
(* Int helpers.                                                            *)
(***************************************************************************)
clamp(v, lo, hi) == IF v < lo THEN lo ELSE IF v > hi THEN hi ELSE v

\* Int.shl: the shift distance is taken modulo 32.
shl(a, n) == a * 2^(n % 32)

\* a conversion that keeps 8 bits
toByte(i) == ((i + 128) % 256) - 128

\* Int.toShort: the low 16 bits, read as a signed value.
toShort(i) == ((i + 32768) % 65536) - 32768

VerticesPerLine(level) == shl(1, level) + 1
VerticesPerPatch(level) == (VerticesPerLine(level) * (VerticesPerLine(level) + 1)) \div 2
TrianglesPerPatch(level) ==
    (VerticesPerLine(level) - 2) * (VerticesPerLine(level) - 1) + VerticesPerLine(level) - 1
TotalVertices(level) == VerticesPerPatch(level) * 8
NumConnectionQuads(level) == (4 + 4 + 4) * (VerticesPerLine(level) - 1) + 6
TotalIndices(level) == (TrianglesPerPatch(level) * 8 + NumConnectionQuads(level) * 2) * 3

(***************************************************************************)
(* VertexArray, TriangleArray and ByteBuffer.  A write past the end of the  *)
(* backing array throws ArrayIndexOutOfBoundsException: the array keeps its *)
(* contents and the flag oob records the throw.                             *)
(***************************************************************************)
VertexArray(count) ==
    [data |-> [j \in 1..count |-> Float3Zero] \o <<>>, index |-> 0, oob |-> FALSE]

VertexArrayWrite(va, v) ==
    IF va.index < Len(va.data)
    THEN [va EXCEPT !.data[va.index + 1] = v, !.index = @ + 1]
    ELSE [va EXCEPT !.index = @ + 1, !.oob = TRUE]

ByteBuffer(capacity) == [capacity |-> capacity, position |-> 0, content |-> <<>>]

\* a positions buffer allocated with one float for each vertex
VertexArrayToBufferOneFloat(va) ==
    [capacity |-> Len(va.data) * kFloatSize,
     position |-> Len(va.data) * 3 * kFloatSize,
     content |-> va.data]

\* putFloat three times for every element of data
VertexArrayToBuffer(va) ==
    [capacity |-> Len(va.data) * kOctaspherePositionSize,
     position |-> Len(va.data) * 3 * kFloatSize,
     content |-> va.data]

TriangleArray(count) ==
    [data |-> [j \in 1..(count * 3) |-> 0] \o <<>>, index |-> 0, oob |-> FALSE]

TriangleArrayWrite(ta, a) ==
    IF ta.index < Len(ta.data)
    THEN [ta EXCEPT !.data[ta.index + 1] = a, !.index = @ + 1]
    ELSE [ta EXCEPT !.index = @ + 1, !.oob = TRUE]

TriangleArrayWrite3(ta, a, b, c) ==
    IF ta.index + 3 <= Len(ta.data)
    THEN [ta EXCEPT !.data[ta.index + 1] = a, !.data[ta.index + 2] = b,
                    !.data[ta.index + 3] = c, !.index = @ + 3]
    ELSE LET t1 == TriangleArrayWrite(ta, a)
             t2 == IF t1.oob THEN t1 ELSE TriangleArrayWrite(t1, b)
         IN  IF t2.oob THEN t2 ELSE TriangleArrayWrite(t2, c)

\* the condition of the assertion in TriangleArray.toBuffer, over all of data
ToBufferAssertion(ta) == \A j \in 1..Len(ta.data) : ta.data[j] <= ShortMaxValue

\* putShort(i.toShort()) for every element of data
TriangleArrayToBuffer(ta) ==
    [capacity |-> Len(ta.data) * kOctasphereIndexSize,
     position |-> Len(ta.data) * 2,
     content |-> [j \in 1..Len(ta.data) |-> toShort(ta.data[j])] \o <<>>]

(***************************************************************************)
(* generateUnitSphere and writeGeodesic.                                   *)
(***************************************************************************)
\* the loop of writeGeodesic over i in lo until hi
RECURSIVE GeodesicInterior(_, _, _, _, _, _)
GeodesicInterior(va, pointA, axis, delta, lo, hi) ==
    IF lo >= hi \/ va.oob THEN va
    ELSE IF hi = lo + 1
    THEN VertexArrayWrite(va,
            quaternionRotateVector(quaternionFromRotation(axis, delta * lo), pointA))
    ELSE LET mid == (lo + hi) \div 2
             left == GeodesicInterior(va, pointA, axis, delta, lo, mid)
         IN  IF left.oob THEN left
             ELSE GeodesicInterior(left, pointA, axis, delta, mid, hi)

\* writeGeodesic without the early return for a line of no segments
writeGeodesicNoReturn(va, pointA, pointB, numSegments) ==
    LET first == VertexArrayWrite(va, pointA)
    IN  IF first.oob THEN first
        ELSE IF numSegments = 0 THEN VertexArrayWrite(first, pointB)
        ELSE LET angleBetweenEndpoints == acos(dot(pointA, pointB))
                 delta == FDivInt(angleBetweenEndpoints, numSegments)
                 axis == cross(pointA, pointB)
                 inner == GeodesicInterior(first, pointA, axis, delta, 1, numSegments)
             IN  IF inner.oob THEN inner ELSE VertexArrayWrite(inner, pointB)

writeGeodesic(va, pointA, pointB, numSegments) ==
    LET first == VertexArrayWrite(va, pointA)
    IN  IF numSegments = 0 \/ first.oob THEN first
        ELSE LET angleBetweenEndpoints == acos(dot(pointA, pointB))
                 delta == FDivInt(angleBetweenEndpoints, numSegments)
                 axis == cross(pointA, pointB)
                 inner == GeodesicInterior(first, pointA, axis, delta, 1, numSegments)
             IN  IF inner.oob THEN inner ELSE VertexArrayWrite(inner, pointB)

\* the body of the tessellation loop of generateUnitSphere for line i
TessellateLineOf(va, i, verticesPerLine) ==
    LET theta == FDivInt(FMul(FPI, Half) * i, verticesPerLine - 1)
        pointA == Float3(0, sin(theta), cos(theta))
        pointB == Float3(cos(theta), sin(theta), 0)
        numSegments == verticesPerLine - 1 - i
    IN  writeGeodesic(va, pointA, pointB, numSegments)

\* a line that always divides by its number of segments
GeodesicDivisorsNoReturn(numSegments) == {numSegments}

\* the divisors of writeGeodesic: numSegments on line 284, none after the return of line 281
GeodesicDivisors(numSegments) == IF numSegments = 0 THEN {} ELSE {numSegments}

\* the divisors of the body of the tessellation loop for line i: lines 253 and 257
TessellateDivisors(i, verticesPerLine) ==
    {verticesPerLine - 1} \cup GeodesicDivisors(verticesPerLine - 1 - i)

\* the octant table with its last row repeating the row before
octantsRepeated ==
    << Float3(0, 0, 0), Float3(0, 1, 0), Float3(0, 2, 0), Float3(0, 3, 0),
       Float3(1, 0, 0), Float3(1, 0, 1), Float3(1, 0, 2), Float3(1, 0, 2) >>

octants ==
    << Float3(0, 0, 0), Float3(0, 1, 0), Float3(0, 2, 0), Float3(0, 3, 0),
       Float3(1, 0, 0), Float3(1, 0, 1), Float3(1, 0, 2), Float3(1, 0, 3) >>

\* the inner loop of the copy loop over i in lo until hi
RECURSIVE CopyPatch(_, _, _, _)
CopyPatch(va, quat, lo, hi) ==
    IF lo >= hi \/ va.oob THEN va
    ELSE IF hi = lo + 1
    THEN VertexArrayWrite(va, quaternionRotateVector(quat, va.data[lo + 1]))
    ELSE LET mid == (lo + hi) \div 2
             left == CopyPatch(va, quat, lo, mid)
         IN  IF left.oob THEN left ELSE CopyPatch(left, quat, mid, hi)

\* the body of the copy loop of generateUnitSphere for one octant
CopyOctantOf(va, octant, verticesPerPatch) ==
    LET e == octants[octant + 1]
        eulerAngles == Float3(FMul(FMul(ToFloat(e[1]), Half), FPI),
                              FMul(FMul(ToFloat(e[2]), Half), FPI),
                              FMul(FMul(ToFloat(e[3]), Half), FPI))
        quat == quaternionFromEulers(eulerAngles)
    IN  CopyPatch(va, quat, 0, verticesPerPatch)

(***************************************************************************)
(* applyScale and translateCorners.                                        *)
(***************************************************************************)
applyScale(va, scale) ==
    [va EXCEPT !.data = [j \in 1..Len(va.data) |-> Float3Times(va.data[j], scale)] \o <<>>]

\* tx, ty, tz of translateCorners
TranslateOffsets(dims, rad) ==
    LET r2 == rad * 2
        width == FMax(dims[1], r2)
        height == FMax(dims[2], r2)
        depth == FMax(dims[3], r2)
    IN  Float3(FDivInt(width - r2, 2), FDivInt(height - r2, 2), FDivInt(depth - r2, 2))

\* the offsets are computed and the positions are left as they are
translateCorners(va, dims, rad, subdivs) == va

(***************************************************************************)
(* generateIndices.                                                        *)
(***************************************************************************)
\* the row loop of one column over row in lo until hi
RECURSIVE ColumnRows(_, _, _, _, _)
ColumnRows(ta, j, colHeight, lo, hi) ==
    IF lo >= hi \/ ta.oob THEN ta
    ELSE IF hi = lo + 1
    THEN LET t == TriangleArrayWrite3(ta, j + lo, j + 1 + lo, j + colHeight + 1 + lo)
         IN  IF t.oob THEN t
             ELSE TriangleArrayWrite3(t, j + colHeight + 1 + lo, j + 1 + lo,
                                      j + colHeight + 2 + lo)
    ELSE LET mid == (lo + hi) \div 2
             left == ColumnRows(ta, j, colHeight, lo, mid)
         IN  IF left.oob THEN left ELSE ColumnRows(left, j, colHeight, mid, hi)

\* the body of the column loop of generateIndices
IndexColumnOf(ta, j, colIndex, verticesPerLine) ==
    LET colHeight == verticesPerLine - 1 - colIndex
        rows == ColumnRows(ta, j, colHeight, 0, colHeight - 1)
        row == colHeight - 1
    IN  IF rows.oob THEN rows
        ELSE TriangleArrayWrite3(rows, j + row, j + 1 + row, j + colHeight + 1 + row)

\* the inner loop of the shift loop over i in lo until hi
RECURSIVE ShiftPatch(_, _, _, _)
ShiftPatch(ta, offset, lo, hi) ==
    IF lo >= hi \/ ta.oob THEN ta
    ELSE IF hi = lo + 1
    THEN TriangleArrayWrite(ta, ta.data[lo + 1] + offset)
    ELSE LET mid == (lo + hi) \div 2
             left == ShiftPatch(ta, offset, lo, mid)
         IN  IF left.oob THEN left ELSE ShiftPatch(left, offset, mid, hi)

\* The shift loop when it reads only entries below the write cursor and stays inside the
\* array: every write(data[i] + offset) then reads an entry no earlier write of the loop
\* has touched, so the count writes land as one block.
ShiftBlock(ta, offset, count) ==
    [ta EXCEPT !.data = [j \in 1..Len(ta.data) |->
                            IF j > ta.index /\ j <= ta.index + count
                            THEN ta.data[j - ta.index] + offset
                            ELSE ta.data[j]] \o <<>>,
               !.index = @ + count]

\* the shift loop with an offset counted in indices, not in vertices
ShiftOctantOfByIndices(ta, octant, level) ==
    ShiftPatch(ta, TrianglesPerPatch(level) * 3 * octant, 0, TrianglesPerPatch(level) * 3)

\* the shift loop with the offset of the next octant
ShiftOctantOfNext(ta, octant, level) ==
    ShiftPatch(ta, VerticesPerPatch(level) * (octant + 1), 0, TrianglesPerPatch(level) * 3)

\* the body of the shift loop of generateIndices for one octant
ShiftOctantOf(ta, octant, level) ==
    LET offset == VerticesPerPatch(level) * octant
        indicesPerPatch == TrianglesPerPatch(level) * 3
    IN  IF ta.index >= indicesPerPatch /\ ta.index + indicesPerPatch <= Len(ta.data)
        THEN ShiftBlock(ta, offset, indicesPerPatch)
        ELSE ShiftPatch(ta, offset, 0, indicesPerPatch)

(***************************************************************************)
(* The state of one call of generateOctasphere.                            *)
(***************************************************************************)
VARIABLES
    pc,                 \* the statement of generateOctasphere about to run
    ea,                 \* whether the JVM runs with assertions enabled
    subdivisions,       \* parameter
    dimensions,         \* parameter, a Float3
    radius,             \* parameter, a Float
    actualSubdivisions, \* local of generateOctasphere
    totalVertices,      \* local of generateOctasphere
    totalIndices,       \* local of generateOctasphere
    positions,          \* local: the VertexArray
    normalsBuffer,      \* local: positions.toBuffer() before scaling
    positionsBuffer,    \* local: positions.toBuffer() after scaling and translation
    triangles,          \* local: the TriangleArray
    tangents,           \* local: the tangent ByteBuffer
    loopIndex,          \* i of the tessellation loop, octant of the copy and shift loops,
                        \* colIndex of the column loop
    j0,                 \* j0 of generateIndices
    mesh,               \* the OctasphereMesh returned
    divisors            \* history: the divisors of the divisions executed so far

(***************************************************************************)
(* The state of the caller of DracoMesh::decode.                           *)
(***************************************************************************)
VARIABLES
    dracoPc,        \* the statement of DracoMesh::decode about to run
    dataSize,       \* parameter
    geotype,        \* status of decoder.GetEncodedGeometryType: "none", "ok" or "error"
    meshStatus,     \* status of decoder.DecodeMeshFromBuffer: "none", "ok" or "error"
    decodedMesh,    \* the draco::Mesh the decoder produced: its attribute ids
    handle,         \* the DracoMeshHandle returned by decode
    attribute       \* the outcome of the last getAttribute on the handle

dracoVars == <<dracoPc, dataSize, geotype, meshStatus, decodedMesh, handle, attribute>>

(***************************************************************************)
(* State of the Java class SurfaceOrientation, of its Builder and of the   *)
(* native heap behind them.                                                *)
(***************************************************************************)
VARIABLES
    soPc,               \* "running", or "crashed" once the process has died
    mNativeBuilder,     \* Builder.mNativeBuilder: 0 while there is no Builder
    builderReachable,   \* whether the caller still holds the Builder
    javaObject,         \* whether build() has returned a SurfaceOrientation
    mNativeObject,      \* SurfaceOrientation.mNativeObject
    nativeHeap,         \* native objects by address: state, vertexCount, deletes
    destroyCalls,       \* number of calls of destroy()
    lastCall            \* the last call of the caller: method, outcome, result

soVars == <<soPc, mNativeBuilder, builderReachable, javaObject, mNativeObject, nativeHeap,
            destroyCalls, lastCall>>

\* the variables that the steps of generateOctasphere leave alone
notOcta == <<dracoVars, soVars>>

octaVars == <<pc, ea, subdivisions, dimensions, radius, actualSubdivisions, totalVertices,
              totalIndices, positions, normalsBuffer, positionsBuffer, triangles, tangents,
              loopIndex, j0, mesh, divisors>>

NullArray == [data |-> <<>>, index |-> 0, oob |-> FALSE]
NullBuffer == ByteBuffer(0)
NullMesh == [numVertices |-> 0, numIndices |-> 0, positions |-> NullBuffer,
             tangents |-> NullBuffer, indices |-> NullBuffer]

\* The shapes of the doc comment of generateOctasphere: a sphere, a capsule, a cuboid and
\* a rounded cuboid, as [dimensions, radius].
Shapes ==
    { [dimensions |-> Float3(0, 0, 0), radius |-> ToFloat(2)],
      [dimensions |-> Float3(0, ToFloat(3), 0), radius |-> Milli(500)],
      [dimensions |-> Float3(ToFloat(2), ToFloat(3), ToFloat(4)), radius |-> 0],
      [dimensions |-> Float3(ToFloat(4), ToFloat(2), ToFloat(3)), radius |-> ToFloat(1)],
      [dimensions |-> Float3(0, 0, 0), radius |-> 0] }

SubdivisionInputs ==
    (0 - NegSubdivisions) .. (kOctasphereMaxSubdivisions + OverSubdivisions)

OctaInit ==
    /\ pc = "call"
    /\ ea \in BOOLEAN
    /\ subdivisions \in SubdivisionInputs
    /\ \E shape \in Shapes : dimensions = shape.dimensions /\ radius = shape.radius
    /\ actualSubdivisions = 0
    /\ totalVertices = 0
    /\ totalIndices = 0
    /\ positions = NullArray
    /\ normalsBuffer = NullBuffer
    /\ positionsBuffer = NullBuffer
    /\ triangles = NullArray
    /\ tangents = NullBuffer
    /\ loopIndex = 0
    /\ j0 = 0
    /\ mesh = NullMesh
    /\ divisors = {}

\* lines 219-227: the counts and the allocation of positions
GenerateOctasphereBegin ==
    /\ pc = "call"
    /\ LET actual == clamp(subdivisions, 0, kOctasphereMaxSubdivisions)
       IN  /\ actualSubdivisions' = actual
           /\ totalVertices' = TotalVertices(actual)
           /\ totalIndices' = TotalIndices(actual)
           /\ positions' = VertexArray(TotalVertices(actual))
    /\ loopIndex' = 0
    /\ pc' = "tessellate"
    /\ UNCHANGED <<ea, subdivisions, dimensions, radius, normalsBuffer, positionsBuffer,
                   triangles, tangents, j0, mesh>>
    /\ divisors' = divisors \cup {2}
    /\ UNCHANGED notOcta

\* generateUnitSphere recomputes its level from its parameter
Divisions == clamp(actualSubdivisions, 0, kOctasphereMaxSubdivisions)

\* lines 252-258: one test of the tessellation loop and, if it passes, its body
TessellateLine ==
    /\ pc = "tessellate"
    /\ IF loopIndex < VerticesPerLine(Divisions)
       THEN /\ positions' =
                TessellateLineOf(positions, loopIndex, VerticesPerLine(Divisions))
            /\ loopIndex' = loopIndex + 1
            /\ divisors' =
                divisors \cup {2} \cup TessellateDivisors(loopIndex, VerticesPerLine(Divisions))
            /\ pc' = IF positions'.oob THEN "IndexOutOfBounds" ELSE "tessellate"
       ELSE /\ positions' = positions
            /\ divisors' = divisors
            /\ loopIndex' = 1
            /\ pc' = "copy"
    /\ UNCHANGED <<ea, subdivisions, dimensions, radius, actualSubdivisions, totalVertices,
                   totalIndices, normalsBuffer, positionsBuffer, triangles, tangents, j0, mesh>>
    /\ UNCHANGED notOcta

\* lines 265-272: one test of the copy loop and, if it passes, its body
CopyOctant ==
    /\ pc = "copy"
    /\ IF loopIndex < 8
       THEN /\ positions' =
                CopyOctantOf(positions, loopIndex, VerticesPerPatch(Divisions))
            /\ loopIndex' = loopIndex + 1
            /\ pc' = IF positions'.oob THEN "IndexOutOfBounds" ELSE "copy"
       ELSE /\ positions' = positions
            /\ loopIndex' = 0
            /\ pc' = "assertSphere"
    /\ UNCHANGED <<ea, subdivisions, dimensions, radius, actualSubdivisions, totalVertices,
                   totalIndices, normalsBuffer, positionsBuffer, triangles, tangents, j0, mesh>>
    /\ UNCHANGED divisors
    /\ UNCHANGED notOcta

\* the condition of the assertion that ends generateUnitSphere
UnitSphereAssertion == positions.index = Len(positions.data)

\* line 273
UnitSphereAssert ==
    /\ pc = "assertSphere"
    /\ pc' = IF ea /\ ~UnitSphereAssertion THEN "AssertionError" ELSE "normals"
    /\ UNCHANGED <<ea, subdivisions, dimensions, radius, actualSubdivisions, totalVertices,
                   totalIndices, positions, normalsBuffer, positionsBuffer, triangles,
                   tangents, loopIndex, j0, mesh>>
    /\ UNCHANGED divisors
    /\ UNCHANGED notOcta

\* line 229
NormalsToBuffer ==
    /\ pc = "normals"
    /\ normalsBuffer' = VertexArrayToBuffer(positions)
    /\ pc' = "scale"
    /\ UNCHANGED <<ea, subdivisions, dimensions, radius, actualSubdivisions, totalVertices,
                   totalIndices, positions, positionsBuffer, triangles, tangents, loopIndex,
                   j0, mesh>>
    /\ UNCHANGED divisors
    /\ UNCHANGED notOcta

\* line 230
ApplyScale ==
    /\ pc = "scale"
    /\ positions' = applyScale(positions, radius)
    /\ pc' = "translate"
    /\ UNCHANGED <<ea, subdivisions, dimensions, radius, actualSubdivisions, totalVertices,
                   totalIndices, normalsBuffer, positionsBuffer, triangles, tangents,
                   loopIndex, j0, mesh>>
    /\ UNCHANGED divisors
    /\ UNCHANGED notOcta

\* line 231
TranslateCorners ==
    /\ pc = "translate"
    /\ positions' = translateCorners(positions, dimensions, radius, actualSubdivisions)
    /\ pc' = "positionsBuffer"
    /\ UNCHANGED <<ea, subdivisions, dimensions, radius, actualSubdivisions, totalVertices,
                   totalIndices, normalsBuffer, positionsBuffer, triangles, tangents,
                   loopIndex, j0, mesh>>
    /\ divisors' = divisors \cup {2}
    /\ UNCHANGED notOcta

\* line 232
PositionsToBuffer ==
    /\ pc = "positionsBuffer"
    /\ positionsBuffer' = VertexArrayToBuffer(positions)
    /\ pc' = "allocTriangles"
    /\ UNCHANGED <<ea, subdivisions, dimensions, radius, actualSubdivisions, totalVertices,
                   totalIndices, positions, normalsBuffer, triangles, tangents, loopIndex,
                   j0, mesh>>
    /\ UNCHANGED divisors
    /\ UNCHANGED notOcta

\* lines 234 and 336
AllocateTriangles ==
    /\ pc = "allocTriangles"
    /\ triangles' = TriangleArray(totalIndices \div 3)
    /\ loopIndex' = 0
    /\ j0' = 0
    /\ pc' = "columns"
    /\ UNCHANGED <<ea, subdivisions, dimensions, radius, actualSubdivisions, totalVertices,
                   totalIndices, positions, normalsBuffer, positionsBuffer, tangents, mesh>>
    /\ divisors' = divisors \cup {3, 2}
    /\ UNCHANGED notOcta

\* lines 337-349: one test of the column loop and, if it passes, its body
IndexColumn ==
    /\ pc = "columns"
    /\ IF loopIndex < VerticesPerLine(actualSubdivisions) - 1
       THEN /\ triangles' =
                IndexColumnOf(triangles, j0, loopIndex,
                    VerticesPerLine(actualSubdivisions))
            /\ j0' = j0 + (VerticesPerLine(actualSubdivisions) - 1 - loopIndex) + 1
            /\ loopIndex' = loopIndex + 1
            /\ pc' = IF triangles'.oob THEN "IndexOutOfBounds" ELSE "columns"
       ELSE /\ triangles' = triangles
            /\ j0' = j0
            /\ loopIndex' = 1
            /\ pc' = "shift"
    /\ UNCHANGED <<ea, subdivisions, dimensions, radius, actualSubdivisions, totalVertices,
                   totalIndices, positions, normalsBuffer, positionsBuffer, tangents, mesh>>
    /\ UNCHANGED divisors
    /\ UNCHANGED notOcta

\* lines 352-357: one test of the shift loop and, if it passes, its body
ShiftOctant ==
    /\ pc = "shift"
    /\ IF loopIndex < 8
       THEN /\ triangles' =
                ShiftOctantOf(triangles, loopIndex, actualSubdivisions)
            /\ loopIndex' = loopIndex + 1
            /\ pc' = IF triangles'.oob THEN "IndexOutOfBounds" ELSE "shift"
       ELSE /\ triangles' = triangles
            /\ loopIndex' = 0
            /\ pc' = "assertIndices"
    /\ UNCHANGED <<ea, subdivisions, dimensions, radius, actualSubdivisions, totalVertices,
                   totalIndices, positions, normalsBuffer, positionsBuffer, tangents, j0, mesh>>
    /\ UNCHANGED divisors
    /\ UNCHANGED notOcta

\* the condition of the assertion that ends generateIndices
IndicesAssertion == triangles.index = Len(triangles.data)

\* line 361
IndicesAssert ==
    /\ pc = "assertIndices"
    /\ pc' = IF ea /\ ~IndicesAssertion THEN "AssertionError" ELSE "tangents"
    /\ UNCHANGED <<ea, subdivisions, dimensions, radius, actualSubdivisions, totalVertices,
                   totalIndices, positions, normalsBuffer, positionsBuffer, triangles,
                   tangents, loopIndex, j0, mesh>>
    /\ UNCHANGED divisors
    /\ UNCHANGED notOcta

\* lines 237-239
AllocateTangents ==
    /\ pc = "tangents"
    /\ tangents' = ByteBuffer(totalVertices * kOctasphereTangentSize)
    /\ pc' = "return"
    /\ UNCHANGED <<ea, subdivisions, dimensions, radius, actualSubdivisions, totalVertices,
                   totalIndices, positions, normalsBuffer, positionsBuffer, triangles,
                   loopIndex, j0, mesh>>
    /\ UNCHANGED divisors
    /\ UNCHANGED notOcta

\* lines 241-242, with triangles.toBuffer() and its assertion
ReturnMesh ==
    /\ pc = "return"
    /\ IF ea /\ ~ToBufferAssertion(triangles)
       THEN /\ pc' = "AssertionError"
            /\ mesh' = mesh
       ELSE /\ pc' = "done"
            /\ mesh' = [numVertices |-> totalVertices, numIndices |-> totalIndices,
                        positions |-> positionsBuffer, tangents |-> tangents,
                        indices |-> TriangleArrayToBuffer(triangles)]
    /\ UNCHANGED <<ea, subdivisions, dimensions, radius, actualSubdivisions, totalVertices,
                   totalIndices, positions, normalsBuffer, positionsBuffer, triangles,
                   tangents, loopIndex, j0>>
    /\ UNCHANGED divisors
    /\ UNCHANGED notOcta

OctaNext ==
    \/ GenerateOctasphereBegin
    \/ TessellateLine
    \/ CopyOctant
    \/ UnitSphereAssert
    \/ NormalsToBuffer
    \/ ApplyScale
    \/ TranslateCorners
    \/ PositionsToBuffer
    \/ AllocateTriangles
    \/ IndexColumn
    \/ ShiftOctant
    \/ IndicesAssert
    \/ AllocateTangents
    \/ ReturnMesh

\* no call of generateOctasphere
OctaIdle ==
    /\ pc = "idle"
    /\ ea = FALSE
    /\ subdivisions = 0
    /\ dimensions = Float3Zero
    /\ radius = 0
    /\ actualSubdivisions = 0
    /\ totalVertices = 0
    /\ totalIndices = 0
    /\ positions = NullArray
    /\ normalsBuffer = NullBuffer
    /\ positionsBuffer = NullBuffer
    /\ triangles = NullArray
    /\ tangents = NullBuffer
    /\ loopIndex = 0
    /\ j0 = 0
    /\ mesh = NullMesh
    /\ divisors = {}

(***************************************************************************)
(* DracoMesh.  The draco decoder is a library: each of its two calls       *)
(* answers ok or an error, and a successful decode yields some mesh.       *)
(***************************************************************************)
AttrIds == 0..MaxAttrId

\* a null DracoMeshHandle, and one owning a DracoMesh whose mDetails holds mesh
NullHandle == [isNull |-> TRUE, mesh |-> {}]
DracoMeshOf(details) == [isNull |-> FALSE, mesh |-> details]

NoAttribute == [attrId |-> 0 - 1, found |-> FALSE]

\* the variables that the steps of DracoMesh leave alone
notDraco == <<octaVars, soVars>>

DracoIdle ==
    /\ dracoPc = "idle"
    /\ dataSize = 0
    /\ geotype = "none"
    /\ meshStatus = "none"
    /\ decodedMesh = {}
    /\ handle = NullHandle
    /\ attribute = NoAttribute

\* lines 32-35: the call, the DecoderBuffer and the Decoder
DecodeCall ==
    /\ dracoPc = "idle"
    /\ \E size \in 0..MaxDataSize : dataSize' = size
    /\ geotype' = "none"
    /\ meshStatus' = "none"
    /\ decodedMesh' = {}
    /\ handle' = NullHandle
    /\ attribute' = NoAttribute
    /\ dracoPc' = "queryType"
    /\ UNCHANGED notDraco

\* decode going on to the mesh decode whatever the type query answered
AfterTypeQueryUnchecked(status) == "decodeMesh"

\* lines 37-39: where decode goes after the type query
AfterTypeQuery(status) == IF status # "ok" THEN "returnNull" ELSE "decodeMesh"

\* lines 36-39
DecodeQueryType ==
    /\ dracoPc = "queryType"
    /\ \E status \in {"ok", "error"} :
          /\ geotype' = status
          /\ dracoPc' = AfterTypeQuery(status)
    /\ UNCHANGED <<dataSize, meshStatus, decodedMesh, handle, attribute>>
    /\ UNCHANGED notDraco

\* lines 41-43: where decode goes after the mesh decode
AfterMeshDecode(status) == IF status # "ok" THEN "returnNull" ELSE "wrap"

\* lines 40-43
DecodeMeshFromBuffer ==
    /\ dracoPc = "decodeMesh"
    /\ \E status \in {"ok", "error"} :
          /\ meshStatus' = status
          /\ IF status = "ok"
             THEN \E attrs \in SUBSET AttrIds : decodedMesh' = attrs
             ELSE decodedMesh' = {}
          /\ dracoPc' = AfterMeshDecode(status)
    /\ UNCHANGED <<dataSize, geotype, handle, attribute>>
    /\ UNCHANGED notDraco

\* lines 38 and 42: return nullptr
DecodeReturnNull ==
    /\ dracoPc = "returnNull"
    /\ handle' = NullHandle
    /\ dracoPc' = "returned"
    /\ UNCHANGED <<dataSize, geotype, meshStatus, decodedMesh, attribute>>
    /\ UNCHANGED notDraco

\* lines 44-45: the DracoMesh that owns the decoded mesh
DecodeReturnMesh ==
    /\ dracoPc = "wrap"
    /\ handle' = DracoMeshOf(decodedMesh)
    /\ dracoPc' = "returned"
    /\ UNCHANGED <<dataSize, geotype, meshStatus, decodedMesh, attribute>>
    /\ UNCHANGED notDraco

\* lines 48-58, called on a handle that is not null
GetAttribute ==
    /\ dracoPc = "returned"
    /\ ~handle.isNull
    /\ \E attrId \in AttrIds :
          attribute' = [attrId |-> attrId, found |-> attrId \in handle.mesh]
    /\ UNCHANGED <<dracoPc, dataSize, geotype, meshStatus, decodedMesh, handle>>
    /\ UNCHANGED notDraco

\* the caller drops the handle (line 30 when it is not null) and may decode again
ReleaseHandle ==
    /\ dracoPc = "returned"
    /\ dracoPc' = "idle"
    /\ dataSize' = 0
    /\ geotype' = "none"
    /\ meshStatus' = "none"
    /\ decodedMesh' = {}
    /\ handle' = NullHandle
    /\ attribute' = NoAttribute
    /\ UNCHANGED notDraco

DracoNext ==
    \/ DecodeCall
    \/ DecodeQueryType
    \/ DecodeMeshFromBuffer
    \/ DecodeReturnNull
    \/ DecodeReturnMesh
    \/ GetAttribute
    \/ ReleaseHandle

(***************************************************************************)
(* The Java class SurfaceOrientation and its JNI functions.  A native      *)
(* method is bound, at its first call, to the exported function whose name  *)
(* is the class prefix followed by the name of the method; a call of a      *)
(* method with no such function throws UnsatisfiedLinkError.                *)
(***************************************************************************)
JniPrefix == "Java_com_google_android_filament_SurfaceOrientation_"

JniName(method) == JniPrefix \o method

\* the native methods that the Java class declares
NativeDeclarations ==
    { "nCreateBuilder", "nDestroyBuilder", "nBuilderVertexCount", "nBuilderNormals",
      "nBuilderTangents", "nBuilderUVs", "nBuilderPositions", "nBuilderTriangleCount",
      "nBuilderTriangles16", "nBuilderTriangles32", "nBuilderBuild", "nGetVertexCount",
      "nGetQuatsAsFloat", "nGetQuatsAsHalf", "nGetQuatsAsShort", "nDestroy" }

\* the functions that the C++ file exports
JniExports ==
    { "Java_com_google_android_filament_SurfaceOrientation_nCreateBuilder",
      "Java_com_google_android_filament_SurfaceOrientation_nDestroyBuilder",
      "Java_com_google_android_filament_SurfaceOrientation_nBuilderVertexCount",
      "Java_com_google_android_filament_SurfaceOrientation_mBuilderNormals",
      "Java_com_google_android_filament_SurfaceOrientation_mBuilderTangents",
      "Java_com_google_android_filament_SurfaceOrientation_mBuilderUVs",
      "Java_com_google_android_filament_SurfaceOrientation_mBuilderPositions",
      "Java_com_google_android_filament_SurfaceOrientation_mBuilderTriangleCount",
      "Java_com_google_android_filament_SurfaceOrientation_mBuilderTriangles16",
      "Java_com_google_android_filament_SurfaceOrientation_mBuilderTriangles32",
      "Java_com_google_android_filament_SurfaceOrientation_nBuilderBuild",
      "Java_com_google_android_filament_SurfaceOrientation_nGetVertexCount",
      "Java_com_google_android_filament_SurfaceOrientation_nGetQuatsAsFloat",
      "Java_com_google_android_filament_SurfaceOrientation_nGetQuatsAsHalf",
      "Java_com_google_android_filament_SurfaceOrientation_nGetQuatsAsShort",
      "Java_com_google_android_filament_SurfaceOrientation_nDestroy" }

\* whether a call of the native method reaches a native function
Linked(method) == JniName(method) \in JniExports

\* the addresses that new returns: never 0
NativeAddresses == 1..2

Unallocated == [state |-> "unallocated", vertexCount |-> 0, deletes |-> 0]

\* new: an address that holds no object
Allocate(heap) == CHOOSE a \in NativeAddresses : heap[a].state = "unallocated"

\* delete of the pointer: nothing for a null pointer
Delete(heap, address) ==
    IF address = 0 THEN heap
    ELSE [heap EXCEPT ![address].state = "freed", ![address].deletes = @ + 1]

\* what a native function that dereferences the pointer meets
Dereference(heap, address) ==
    IF address = 0 THEN "nullDereference"
    ELSE IF heap[address].state = "live" THEN "ok" ELSE "useAfterFree"

Call(method, outcome, result) == [method |-> method, outcome |-> outcome, result |-> result]

\* the variables that the steps of SurfaceOrientation leave alone
notSo == <<octaVars, dracoVars>>

\* no Builder and no SurfaceOrientation yet
SoIdle ==
    /\ soPc = "running"
    /\ mNativeBuilder = 0
    /\ builderReachable = FALSE
    /\ javaObject = FALSE
    /\ mNativeObject = 0
    /\ nativeHeap = [a \in NativeAddresses |-> Unallocated]
    /\ destroyCalls = 0
    /\ lastCall = Call("none", "ok", 0)

\* Java lines 63-66 and C++ lines 24-27: new Builder()
NewBuilder ==
    /\ soPc = "running"
    /\ mNativeBuilder = 0
    /\ IF Linked("nCreateBuilder")
       THEN /\ mNativeBuilder' = Allocate(nativeHeap)
            /\ nativeHeap' = [nativeHeap EXCEPT ![mNativeBuilder'].state = "live"]
            /\ builderReachable' = TRUE
            /\ lastCall' = Call("Builder", "ok", 0)
       ELSE /\ lastCall' = Call("Builder", "UnsatisfiedLinkError", 0)
            /\ UNCHANGED <<mNativeBuilder, nativeHeap, builderReachable>>
    /\ UNCHANGED <<soPc, javaObject, mNativeObject, destroyCalls>>
    /\ UNCHANGED notSo

\* Java lines 68-72 and C++ lines 36-41: Builder.vertexCount
BuilderVertexCount ==
    /\ soPc = "running"
    /\ builderReachable
    /\ \E vertexCount \in 1..MaxVertexCount :
          IF Linked("nBuilderVertexCount")
          THEN /\ nativeHeap' = [nativeHeap EXCEPT ![mNativeBuilder].vertexCount = vertexCount]
               /\ lastCall' = Call("vertexCount", "ok", 0)
          ELSE /\ nativeHeap' = nativeHeap
               /\ lastCall' = Call("vertexCount", "UnsatisfiedLinkError", 0)
    /\ UNCHANGED <<soPc, mNativeBuilder, builderReachable, javaObject, mNativeObject,
                   destroyCalls>>
    /\ UNCHANGED notSo

\* a Builder method whose native function, C++ lines 43-89, only casts the pointer
BuilderCall(javaMethod, nativeMethod) ==
    /\ soPc = "running"
    /\ builderReachable
    /\ lastCall' = Call(javaMethod, IF Linked(nativeMethod) THEN "ok"
                                    ELSE "UnsatisfiedLinkError", 0)
    /\ UNCHANGED <<soPc, mNativeBuilder, builderReachable, javaObject, mNativeObject,
                   nativeHeap, destroyCalls>>
    /\ UNCHANGED notSo

\* Java lines 74-78
BuilderNormals == BuilderCall("normals", "nBuilderNormals")

\* Java lines 80-84
BuilderTangents == BuilderCall("tangents", "nBuilderTangents")

\* Java lines 86-90
BuilderUVs == BuilderCall("uvs", "nBuilderUVs")

\* Java lines 92-96
BuilderPositions == BuilderCall("positions", "nBuilderPositions")

\* Java lines 98-102
BuilderTriangleCount == BuilderCall("triangleCount", "nBuilderTriangleCount")

\* Java lines 104-108
BuilderTriangles16 == BuilderCall("triangles_uint16", "nBuilderTriangles16")

\* Java lines 110-114
BuilderTriangles32 == BuilderCall("triangles_uint32", "nBuilderTriangles32")

\* Java lines 116-122 and C++ lines 91-98: Builder.build, once
BuilderBuild ==
    /\ soPc = "running"
    /\ builderReachable
    /\ ~javaObject
    /\ IF Linked("nBuilderBuild")
       THEN LET nativeSurfaceOrientation == Allocate(nativeHeap)
            IN  /\ nativeHeap' =
                      [nativeHeap EXCEPT ![nativeSurfaceOrientation] =
                          [state |-> "live",
                           vertexCount |-> nativeHeap[mNativeBuilder].vertexCount,
                           deletes |-> 0]]
                /\ IF nativeSurfaceOrientation = 0
                   THEN /\ lastCall' = Call("build", "IllegalStateException", 0)
                        /\ UNCHANGED <<javaObject, mNativeObject>>
                   ELSE /\ javaObject' = TRUE
                        /\ mNativeObject' = nativeSurfaceOrientation
                        /\ lastCall' = Call("build", "ok", nativeSurfaceOrientation)
       ELSE /\ lastCall' = Call("build", "UnsatisfiedLinkError", 0)
            /\ UNCHANGED <<nativeHeap, javaObject, mNativeObject>>
    /\ UNCHANGED <<soPc, mNativeBuilder, builderReachable, destroyCalls>>
    /\ UNCHANGED notSo

\* Java lines 124-138 and C++ lines 29-34: the caller lets go of the Builder and its
\* finalizer runs
FinalizeBuilder ==
    /\ soPc = "running"
    /\ builderReachable
    /\ builderReachable' = FALSE
    /\ nativeHeap' = IF Linked("nDestroyBuilder") THEN Delete(nativeHeap, mNativeBuilder)
                     ELSE nativeHeap
    /\ UNCHANGED <<soPc, mNativeBuilder, javaObject, mNativeObject, destroyCalls, lastCall>>
    /\ UNCHANGED notSo

\* Java lines 141-146
GetNativeObject ==
    /\ soPc = "running"
    /\ javaObject
    /\ lastCall' = IF mNativeObject = 0
                   THEN Call("getNativeObject", "IllegalStateException", 0)
                   ELSE Call("getNativeObject", "ok", mNativeObject)
    /\ UNCHANGED <<soPc, mNativeBuilder, builderReachable, javaObject, mNativeObject,
                   nativeHeap, destroyCalls>>
    /\ UNCHANGED notSo

\* Java lines 148-151 and C++ lines 100-105: helper->getVertexCount().  Through a null or a
\* freed pointer the behaviour is undefined: the process dies, or the call returns some int.
GetVertexCount ==
    /\ soPc = "running"
    /\ javaObject
    /\ IF ~Linked("nGetVertexCount")
       THEN /\ lastCall' = Call("getVertexCount", "UnsatisfiedLinkError", 0)
            /\ soPc' = soPc
       ELSE LET access == Dereference(nativeHeap, mNativeObject)
            IN  IF access = "ok"
                THEN /\ lastCall' = Call("getVertexCount", "ok",
                                         nativeHeap[mNativeObject].vertexCount)
                     /\ soPc' = soPc
                ELSE \/ /\ lastCall' = Call("getVertexCount", access, 0)
                        /\ soPc' = "crashed"
                     \/ /\ \E garbage \in 0..MaxVertexCount :
                              lastCall' = Call("getVertexCount", access, garbage)
                        /\ soPc' = soPc
    /\ UNCHANGED <<mNativeBuilder, builderReachable, javaObject, mNativeObject, nativeHeap,
                   destroyCalls>>
    /\ UNCHANGED notSo

\* an accessor whose native function, C++ lines 107-129, casts the pointer and returns
\* nullptr
GetQuats(javaMethod, nativeMethod) ==
    /\ soPc = "running"
    /\ javaObject
    /\ lastCall' = Call(javaMethod, IF Linked(nativeMethod) THEN "ok"
                                    ELSE "UnsatisfiedLinkError", 0)
    /\ UNCHANGED <<soPc, mNativeBuilder, builderReachable, javaObject, mNativeObject,
                   nativeHeap, destroyCalls>>
    /\ UNCHANGED notSo

\* Java lines 153-156
GetQuatsAsFloat == GetQuats("getQuatsAsFloat", "nGetQuatsAsFloat")

\* Java lines 158-161
GetQuatsAsHalf == GetQuats("getQuatsAsHalf", "nGetQuatsAsHalf")

\* Java lines 163-166
GetQuatsAsShort == GetQuats("getQuatsAsShort", "nGetQuatsAsShort")

\* Java lines 168-171 and C++ lines 131-136
Destroy ==
    /\ soPc = "running"
    /\ javaObject
    /\ destroyCalls < MaxDestroys
    /\ destroyCalls' = destroyCalls + 1
    /\ IF Linked("nDestroy")
       THEN /\ nativeHeap' = Delete(nativeHeap, mNativeObject)
            /\ mNativeObject' = 0
            /\ lastCall' = Call("destroy", "ok", 0)
       ELSE /\ lastCall' = Call("destroy", "UnsatisfiedLinkError", 0)
            /\ UNCHANGED <<nativeHeap, mNativeObject>>
    /\ UNCHANGED <<soPc, mNativeBuilder, builderReachable, javaObject>>
    /\ UNCHANGED notSo

JavaNext ==
    \/ NewBuilder
    \/ BuilderVertexCount
    \/ BuilderNormals
    \/ BuilderTangents
    \/ BuilderUVs
    \/ BuilderPositions
    \/ BuilderTriangleCount
    \/ BuilderTriangles16
    \/ BuilderTriangles32
    \/ BuilderBuild
    \/ FinalizeBuilder
    \/ GetNativeObject
    \/ GetVertexCount
    \/ GetQuatsAsFloat
    \/ GetQuatsAsHalf
    \/ GetQuatsAsShort
    \/ Destroy

(***************************************************************************)
(* Specifications: one call of generateOctasphere, the callers of          *)
(* DracoMesh, and the callers of SurfaceOrientation.                       *)
(***************************************************************************)
vars == <<octaVars, dracoVars, soVars>>

Init == OctaInit /\ DracoIdle /\ SoIdle
Next == OctaNext
Spec == Init /\ [][Next]_vars

DracoInit == OctaIdle /\ DracoIdle /\ SoIdle
DracoSpec == DracoInit /\ [][DracoNext]_vars

JavaInit == OctaIdle /\ DracoIdle /\ SoIdle
JavaSpec == JavaInit /\ [][JavaNext]_vars

(***************************************************************************)
(* Vocabulary of the properties.  Magnitudes are compared up to Tolerance, *)
(* one ten-thousandth: a hundred times the rounding of the model.          *)
(***************************************************************************)
Tolerance == Scale \div 10000

Abs(x) == IF x < 0 THEN 0 - x ELSE x

Near(a, b) == Abs(a - b) <= Tolerance

\* two entries hold the same point
SamePoint(a, b) == Near(a[1], b[1]) /\ Near(a[2], b[2]) /\ Near(a[3], b[3])

Norm2(v) == dot(v, v)

ErrorStates == {"AssertionError", "IndexOutOfBounds"}

\* some dimension exceeds twice the radius: a cuboid, a capsule or a rounded cuboid
HasExcess == \E a \in 1..3 : dimensions[a] > 2 * radius

\* the patch, 0..7, of entry j, 1..totalVertices, of the position list
PatchOf(j) == (j - 1) \div VerticesPerPatch(actualSubdivisions)

(***************************************************************************)
(* C1.  As claimed: the level used is min(max(subdivisions, 0), 5); a      *)
(* value above 5 gives the vertex and index counts of 5, a negative value   *)
(* those of 0, and in either case the call signals no error.                *)
(***************************************************************************)
C1_SilentlyClamped ==
    pc \notin {"idle", "call"} =>
        /\ actualSubdivisions =
              IF subdivisions > 5 THEN 5 ELSE IF subdivisions < 0 THEN 0 ELSE subdivisions
        /\ subdivisions > 5 =>
              /\ totalVertices = 8 * ((33 * 34) \div 2)
              /\ totalIndices = (32 * 32 * 8 + (12 * 32 + 6) * 2) * 3
              /\ pc \notin ErrorStates
        /\ subdivisions < 0 =>
              /\ totalVertices = 8 * 3
              /\ totalIndices = (8 + (12 + 6) * 2) * 3
              /\ pc \notin ErrorStates
        /\ pc = "done" =>
              /\ mesh.numVertices = totalVertices
              /\ mesh.numIndices = totalIndices

(***************************************************************************)
(* C2.  As claimed: at level 0 the mesh reports 8 vertices.                *)
(***************************************************************************)
C2_EightVertices ==
    (pc = "done" /\ actualSubdivisions = 0) => mesh.numVertices = 8

\* vertex m, 1..3, of the k-th triangle, 0..7, of the returned mesh
TriangleVertex(k, m) == mesh.positions.content[mesh.indices.content[3 * k + m] + 1]

\* v is the corner of the octahedron of radius r on axis a, on the side s
IsCorner(v, r, a, s) ==
    \A c \in 1..3 : IF c = a THEN Near(v[c], s * r) ELSE Near(v[c], 0)

\* triangle k has one vertex on each axis: a face of the octahedron.  FaceSide is the
\* octant the face lies in.
IsFace(k) ==
    \A a \in 1..3 : \E m \in 1..3 : \E s \in {0 - 1, 1} :
        IsCorner(TriangleVertex(k, m), radius, a, s)

FaceSide(k) ==
    [a \in 1..3 |->
        CHOOSE s \in {0 - 1, 1} : \E m \in 1..3 : IsCorner(TriangleVertex(k, m), radius, a, s)]

(***************************************************************************)
(* C2, amended.  At level 0 the mesh reports 24 vertices, 3 for each of    *)
(* the 8 patches, and for a sphere (radius > 0, no dimension above twice   *)
(* the radius) the 8 triangles written are the 8 faces of the regular      *)
(* octahedron of that radius: each has one vertex on each axis at distance *)
(* radius, and no two lie in the same octant.                              *)
(***************************************************************************)
C2_OctahedronOf24 ==
    (pc = "done" /\ actualSubdivisions = 0) =>
        /\ mesh.numVertices = 24
        /\ (radius > 0 /\ ~HasExcess) =>
              /\ \A k \in 0..7 : IsFace(k)
              /\ Cardinality({FaceSide(k) : k \in 0..7}) = 8

\* a sphere of level 0 has been returned
C2_Witness ==
    /\ pc = "done"
    /\ actualSubdivisions = 0
    /\ radius > 0
    /\ ~HasExcess
    /\ mesh.numVertices = 24

(***************************************************************************)
(* C3.  generateUnitSphere writes exactly n - i positions for line i of the *)
(* first patch, verticesPerPatch = n(n+1)/2 in all, and verticesPerPatch    *)
(* for each of the 7 copies; no write falls outside the array and the      *)
(* cursor equals the array size where the function asserts it.             *)
(***************************************************************************)
C3_UnitSphereFillsArray ==
    LET n == 2^actualSubdivisions + 1
        verticesPerPatch == (n * (n + 1)) \div 2
    IN  /\ pc \notin {"idle", "call"} => ~positions.oob
        /\ pc = "tessellate" =>
              positions.index = loopIndex * n - (loopIndex * (loopIndex - 1)) \div 2
        /\ pc = "copy" => positions.index = loopIndex * verticesPerPatch
        /\ pc = "assertSphere" =>
              /\ positions.index = verticesPerPatch * 8
              /\ Len(positions.data) = verticesPerPatch * 8
              /\ UnitSphereAssertion

\* the assertion of generateUnitSphere is reached at the highest level
C3_Witness ==
    /\ pc = "assertSphere"
    /\ actualSubdivisions = kOctasphereMaxSubdivisions
    /\ positions.index = 4488

(***************************************************************************)
(* C4.  generateIndices writes trianglesPerPatch * 8 * 3 indices, with      *)
(* trianglesPerPatch = (n - 1)^2, and every entry of the index list is in   *)
(* [0, numVertices).                                                        *)
(***************************************************************************)
C4_IndexCountAndRange ==
    LET n == 2^actualSubdivisions + 1
    IN  /\ pc = "assertIndices" =>
              /\ triangles.index = (n - 1) * (n - 1) * 8 * 3
              /\ \A j \in 1..Len(triangles.data) :
                    triangles.data[j] >= 0 /\ triangles.data[j] < totalVertices
        /\ pc = "done" =>
              \A j \in 1..Len(mesh.indices.content) :
                    mesh.indices.content[j] >= 0 /\ mesh.indices.content[j] < mesh.numVertices

\* generateIndices has run at level 2, and the last vertex is among its indices
C4_Witness ==
    /\ pc = "assertIndices"
    /\ actualSubdivisions = 2
    /\ triangles.index = 384
    /\ \E j \in 1..triangles.index : triangles.data[j] = totalVertices - 1

(***************************************************************************)
(* C5.  Every index that TriangleArray.toBuffer writes fits in 16 bits: it  *)
(* satisfies the assertion of toBuffer, is at most 65535, and the short     *)
(* written has the value of the index.                                      *)
(***************************************************************************)
C5_IndicesFitShort ==
    /\ pc = "return" => ToBufferAssertion(triangles)
    /\ pc = "done" =>
          \A j \in 1..Len(triangles.data) :
              /\ triangles.data[j] <= 65535
              /\ mesh.indices.content[j] = triangles.data[j]

\* the index buffer of level 3 has been written, with an index that no byte holds
C5_Witness ==
    /\ pc = "done"
    /\ actualSubdivisions = 3
    /\ \E j \in 1..Len(mesh.indices.content) : mesh.indices.content[j] = 359

(***************************************************************************)
(* C6.  The buffers of the returned mesh are sized to its counts: 12 bytes  *)
(* a vertex of positions, 16 bytes a vertex of tangents, 2 bytes an index.  *)
(***************************************************************************)
C6_BuffersSized ==
    pc = "done" =>
        /\ mesh.positions.capacity = mesh.numVertices * 12
        /\ mesh.positions.position = mesh.positions.capacity
        /\ Len(mesh.positions.content) = mesh.numVertices
        /\ mesh.tangents.capacity = mesh.numVertices * 16
        /\ mesh.indices.capacity = mesh.numIndices * 2
        /\ mesh.indices.position = mesh.indices.capacity
        /\ Len(mesh.indices.content) = mesh.numIndices

\* a mesh of more than one level has been returned
C6_Witness ==
    /\ pc = "done"
    /\ actualSubdivisions = 1
    /\ mesh.numVertices = 48
    /\ mesh.positions.capacity = 576

\* sx, sy, sz of the octant in the comment of translateCorners
OctantSigns(octant) ==
    Float3(IF octant < 2 \/ octant = 4 \/ octant = 7 THEN 1 ELSE 0 - 1,
           IF octant < 4 THEN 1 ELSE 0 - 1,
           IF octant = 0 \/ octant = 3 \/ octant = 4 \/ octant = 5 THEN 1 ELSE 0 - 1)

\* entry j of the unit sphere scaled by the radius and moved by the offsets of its octant
TranslatedPosition(j) ==
    LET scaled == Float3Times(normalsBuffer.content[j], radius)
        t == TranslateOffsets(dimensions, radius)
        sign == OctantSigns(PatchOf(j))
    IN  Float3(scaled[1] + t[1] * sign[1], scaled[2] + t[2] * sign[2],
               scaled[3] + t[3] * sign[3])

(***************************************************************************)
(* C7.  As claimed: when some dimension exceeds twice the radius, every     *)
(* returned position is the scaled sphere position moved, on each axis, by  *)
(* half the excess of that axis with the sign of its octant.                *)
(***************************************************************************)
C7_PatchesTranslated ==
    (pc = "done" /\ HasExcess) =>
        \A j \in 1..Len(mesh.positions.content) :
            SamePoint(mesh.positions.content[j], TranslatedPosition(j))

(***************************************************************************)
(* C8.  As claimed: no two entries of the position list hold the same      *)
(* point.                                                                  *)
(***************************************************************************)
C8_NoDuplicates ==
    pc = "assertSphere" =>
        \A j \in 1..Len(positions.data) : \A k \in 1..Len(positions.data) :
            j # k => ~SamePoint(positions.data[j], positions.data[k])

\* the six corners of the unit octahedron
UnitCorners ==
    { Float3(One, 0, 0), Float3(0 - One, 0, 0), Float3(0, One, 0), Float3(0, 0 - One, 0),
      Float3(0, 0, One), Float3(0, 0, 0 - One) }

(***************************************************************************)
(* C8, amended.  The replication keeps the seam vertices of every patch:   *)
(* a point on a seam is held once by each patch that meets there.  At      *)
(* every level the pole (0, 1, 0) is the last entry of each of the patches  *)
(* 0..3 and the pole (0, -1, 0) the first entry of each of the patches      *)
(* 4..7, and every vertex of the first line of patch 0, its seam on the     *)
(* plane y = 0, is held again by patch 4; at level 0 the 24 entries hold    *)
(* only the 6 corners of the octahedron, each in 4 entries.                 *)
(***************************************************************************)
C8_SeamVerticesRepeated ==
    LET verticesPerPatch == VerticesPerPatch(actualSubdivisions)
    IN  pc = "assertSphere" =>
            /\ \A k \in 0..3 :
                  SamePoint(positions.data[(k + 1) * verticesPerPatch], Float3(0, One, 0))
            /\ \A k \in 4..7 :
                  SamePoint(positions.data[k * verticesPerPatch + 1], Float3(0, 0 - One, 0))
            /\ \A j \in 1..VerticesPerLine(actualSubdivisions) :
                  \E k \in (4 * verticesPerPatch + 1)..(5 * verticesPerPatch) :
                      SamePoint(positions.data[j], positions.data[k])
            /\ actualSubdivisions = 0 =>
                  \A c \in UnitCorners :
                      Cardinality({j \in 1..Len(positions.data) :
                                      SamePoint(positions.data[j], c)}) = 4

\* the unit sphere of level 0 is complete and two of its entries hold the same point
C8_Witness ==
    /\ pc = "assertSphere"
    /\ actualSubdivisions = 0
    /\ positions.index = 24
    /\ SamePoint(positions.data[2], positions.data[14])

(***************************************************************************)
(* C9.  As claimed: every point of the unit sphere that generateUnitSphere  *)
(* returns, the points of writeGeodesic and their rotated copies, is of     *)
(* unit length, and for a sphere every returned position has magnitude      *)
(* radius.                                                                  *)
(***************************************************************************)
C9_UnitLength ==
    /\ pc = "assertSphere" =>
          \A j \in 1..positions.index : Near(Norm2(positions.data[j]), One)
    /\ (pc = "done" /\ radius > 0 /\ ~HasExcess) =>
          \A j \in 1..Len(mesh.positions.content) :
              Abs(Norm2(mesh.positions.content[j]) - FMul(radius, radius))
                  <= FMul(FMul(radius, radius), Tolerance)

(***************************************************************************)
(* C10.  DracoMesh::decode returns a null handle whenever the type query    *)
(* or the mesh decode fails, does not attempt the mesh decode after a       *)
(* failed type query, and returns a DracoMesh that owns the decoded mesh    *)
(* exactly when both succeed.                                               *)
(***************************************************************************)
C10_DecodeNullOnFailure ==
    /\ geotype = "error" => meshStatus = "none"
    /\ dracoPc = "returned" =>
          /\ (geotype = "error" \/ meshStatus = "error") => handle.isNull
          /\ ~handle.isNull <=> (geotype = "ok" /\ meshStatus = "ok")
          /\ ~handle.isNull => handle.mesh = decodedMesh

\* decode has returned a DracoMesh that owns a decoded mesh with all its attributes
C10_Witness ==
    /\ dracoPc = "returned"
    /\ geotype = "ok"
    /\ meshStatus = "ok"
    /\ ~handle.isNull
    /\ handle.mesh = AttrIds

(***************************************************************************)
(* C11.  As claimed: where generateIndices asserts it, the cursor of the   *)
(* triangle array equals the length of the array, so the indices written   *)
(* are as many as the numIndices that generateOctasphere reports and the    *)
(* index buffer has no unwritten entries at its end.                        *)
(***************************************************************************)
C11_IndicesFillArray ==
    /\ pc = "assertIndices" =>
          /\ triangles.index = Len(triangles.data)
          /\ triangles.index = totalIndices
    /\ pc = "done" => triangles.index = mesh.numIndices

\* the three indices of triangle t, 0.., of the triangle array
TriangleAt(t) ==
    <<triangles.data[3 * t + 1], triangles.data[3 * t + 2], triangles.data[3 * t + 3]>>

\* the first triangle of a quad cell, and the only one of the end of a column:
\* (j0 + row, j1 + row, j2 + row) with j1 = j0 + 1 and j2 in the next column
IsLowerTriangle(tri) == tri[2] = tri[1] + 1 /\ tri[3] > tri[2]

\* the second triangle of a quad cell: (j2 + row, j1 + row, j3 + row) with j3 = j2 + 1
IsUpperTriangle(tri) == tri[3] = tri[1] + 1 /\ tri[2] < tri[1]

(***************************************************************************)
(* C12.  generateIndices builds the triangles of the first patch once, two *)
(* for every quad cell and one for the end of every column, all of their    *)
(* indices below verticesPerPatch, and every other patch is that patch      *)
(* shifted: for k in 1..7 and i in 0..indicesPerPatch-1 the index at        *)
(* k * indicesPerPatch + i is the index at i plus k * verticesPerPatch.     *)
(***************************************************************************)
C12_PatchesAreShiftedCopies ==
    LET n == 2^actualSubdivisions + 1
        verticesPerPatch == (n * (n + 1)) \div 2
        trianglesPerPatch == (n - 1) * (n - 1)
        indicesPerPatch == trianglesPerPatch * 3
        firstPatch == 0..(trianglesPerPatch - 1)
    IN  pc = "assertIndices" =>
            /\ \A i \in 1..indicesPerPatch :
                  triangles.data[i] >= 0 /\ triangles.data[i] < verticesPerPatch
            /\ Cardinality({t \in firstPatch : IsLowerTriangle(TriangleAt(t))})
                  = (n * (n - 1)) \div 2
            /\ Cardinality({t \in firstPatch : IsUpperTriangle(TriangleAt(t))})
                  = ((n - 1) * (n - 2)) \div 2
            /\ \A k \in 1..7 : \A i \in 0..(indicesPerPatch - 1) :
                  triangles.data[k * indicesPerPatch + i + 1]
                      = triangles.data[i + 1] + k * verticesPerPatch

\* the indices of level 1 are written: 4 triangles a patch, the last patch 42 vertices on
C12_Witness ==
    /\ pc = "assertIndices"
    /\ actualSubdivisions = 1
    /\ triangles.index = 96
    /\ triangles.data[7 * 12 + 1] = triangles.data[1] + 7 * 6
    /\ IsUpperTriangle(TriangleAt(1))

(***************************************************************************)
(* C13.  generateOctasphere never divides by zero, whatever the level and  *)
(* the shape, degenerate ones included: no division it executes has the    *)
(* divisor 0, verticesPerLine - 1 is at least 1, and the offsets tx, ty,   *)
(* tz of translateCorners are never negative.                              *)
(***************************************************************************)
C13_NoDivisionByZero ==
    pc # "idle" =>
        /\ 0 \notin divisors
        /\ pc # "call" => VerticesPerLine(Divisions) - 1 >= 1
        /\ pc = "tessellate" /\ loopIndex > 0 =>
              (VerticesPerLine(Divisions) - 1) \in divisors
        /\ pc = "copy" =>
              divisors = {2} \cup 1..(VerticesPerLine(Divisions) - 1)
        /\ \A a \in 1..3 : TranslateOffsets(dimensions, radius)[a] >= 0

\* the shape of radius 0 and dimensions 0 has been tessellated, its last line of no segments
\* included, and its offsets computed
C13_Witness ==
    /\ pc = "positionsBuffer"
    /\ radius = 0
    /\ dimensions = Float3Zero
    /\ actualSubdivisions = 1
    /\ divisors = {1, 2}
    /\ TranslateOffsets(dimensions, radius) = Float3Zero

\* the methods of SurfaceOrientation that read the native object
Accessors ==
    {"getNativeObject", "getVertexCount", "getQuatsAsFloat", "getQuatsAsHalf", "getQuatsAsShort"}

(***************************************************************************)
(* C14.  As claimed: whatever the calls on a SurfaceOrientation that       *)
(* build() returned, no native object is deleted twice, native code never  *)
(* reads through a null or a freed pointer, and an accessor called after   *)
(* destroy() fails with IllegalStateException, as getNativeObject does.    *)
(***************************************************************************)
C14_NoUseAfterDestroy ==
    /\ \A a \in NativeAddresses : nativeHeap[a].deletes <= 1
    /\ lastCall.outcome \notin {"nullDereference", "useAfterFree"}
    /\ soPc # "crashed"
    /\ (javaObject /\ mNativeObject = 0 /\ lastCall.method \in Accessors) =>
          lastCall.outcome = "IllegalStateException"

(***************************************************************************)
(* C15.  As claimed: every native method that the Java class declares has  *)
(* an exported function of the matching JNI name, and no call of a method   *)
(* of the Builder or of SurfaceOrientation fails to link.                   *)
(***************************************************************************)
C15_NativeMethodsLinked ==
    /\ \A method \in NativeDeclarations : Linked(method)
    /\ lastCall.outcome # "UnsatisfiedLinkError"

====
